---- MODULE Spec2Model ----
(***************************************************************************)
(* The review controller of src/App.js (the React component App): its      *)
(* state slices, the asynchronous handlers fetchData, handleReview and     *)
(* triggerRetraining cut at their await points, the notification timers,   *)
(* the refresh interval from mount to unmount, the operator's buttons, and *)
(* the remote gateway the handlers talk to.                                *)
(***************************************************************************)
EXTENDS Integers, Sequences, FiniteSets

\* ------------------------------------------------------------- bounds
\* Samples the upstream classifier emits in one run.
NumSamples == 3
\* Review requests the operator sends in one run.
MaxSubmits == 2
\* Concurrent runs of fetchData / handleReview / triggerRetraining.
MaxFetches == 1
MaxReviews == 2
MaxRetrains == 2
\* Ticks of the refresh interval, and clicks on the retrain button, in one run.
MaxRefreshes == 1
MaxRetrainClicks == 2
\* Gateway calls that go wrong (a transport or parse failure, or a body with
\* success: false) in one run.
MaxFaults == 2
\* Calls of handleReview that find the queue empty, in one run.
MaxEmptyCalls == 1
\* Granularity of the clock.
TickUnit == 1000

\* ---------------------------------------------------- program constants
\* setTimeout(() => setNotification(null), 3000)
NotificationTimeout == 3000

\* setInterval(fetchData, 30000)
RefreshInterval == 30000

\* The keys of ACTIONS: 0 ALLOW, 1 RATE LIMIT, 2 BLOCK.
ActionOrdinals == {0, 1, 2}

VARIABLES
    samples,         \* useState([]): the local queue
    stats,           \* useState(null): {} is null, {s} a snapshot
    loading,         \* useState(true)
    processing,      \* useState(false)
    correctionMode,  \* useState(false)
    notification,    \* useState(null): {} is null, {n} a notification
    timers,          \* pending setTimeout callbacks: time left of each
    fetches,         \* runs of fetchData in flight
    reviews,         \* runs of handleReview in flight
    retrains,        \* runs of triggerRetraining in flight
    gwPending,       \* gateway: samples pending review
    gwArrived,       \* gateway: samples emitted so far
    gwReviewed,      \* gateway: total_reviewed
    gwRetraining,    \* gateway: retraining_in_progress
    refreshes,       \* ticks of the refresh interval so far
    retrainClicks,   \* clicks on the retrain button so far
    faults,          \* gateway calls that went wrong so far
    submits,         \* review requests sent so far
    lastReview,      \* history: how the last finished handleReview ended
    live,            \* the component is mounted
    interval,        \* setInterval: {} is no interval, {t} the time to its next tick
    lastLoad,        \* history: the sample list of the load applied last
    confirmRun,      \* history: the confirmations since the load applied last
    emptyCalls       \* history: calls of handleReview that found the queue empty

uiVars == <<samples, stats, loading, processing, correctionMode>>
notifVars == <<notification, timers>>
callVars == <<fetches, reviews, retrains>>
gwVars == <<gwPending, gwArrived, gwReviewed, gwRetraining>>
envVars == <<refreshes, retrainClicks, faults, submits, lastReview>>
lifeVars == <<live, interval>>
histVars == <<lastLoad, confirmRun, emptyCalls>>
vars == <<samples, stats, loading, processing, correctionMode, notification,
          timers, fetches, reviews, retrains, gwPending, gwArrived,
          gwReviewed, gwRetraining, refreshes, retrainClicks, faults, submits,
          lastReview, live, interval, lastLoad, confirmRun, emptyCalls>>

\* ------------------------------------------------------------- helpers
\* A sample as the gateway emits it; only ip and predicted_action are read
\* by the controller's logic.
Sample(i) == [ip |-> i, predicted_action |-> i % 3]

\* A removal that drops the last element instead of the first.
SliceLast(q) == IF q = <<>> THEN <<>> ELSE SubSeq(q, 1, Len(q) - 1)

\* prev.slice(1)
Slice1(q) == IF q = <<>> THEN <<>> ELSE Tail(q)

\* The gateway's pending list without the reviewed sample.
RECURSIVE Without(_, _)
Without(q, s) ==
    IF q = <<>> THEN <<>>
    ELSE IF Head(q) = s THEN Tail(q)
    ELSE <<Head(q)>> \o Without(Tail(q), s)

\* A fetch's outcome: still in flight, rejected / unparsable, or a body.
Pending == [st |-> "pending"]
Failed == [st |-> "fail"]
SamplesBody(ok) ==
    [st |-> "ok", success |-> ok, samples |-> IF ok THEN gwPending ELSE <<>>]
StatsBody(ok) ==
    [st |-> "ok", success |-> ok,
     stats |-> IF ok THEN {[total_reviewed |-> gwReviewed,
                            retraining_in_progress |-> gwRetraining]}
               ELSE {}]
ReviewBody(ok) == [st |-> "ok", success |-> ok, message |-> "Updated"]
RetrainBody(ok) ==
    [st |-> "ok", success |-> ok,
     message |-> IF ok THEN "Retraining started" ELSE "Retraining not started"]

IdleFetch == [pc |-> "idle"]
IdleReview == [pc |-> "idle"]
IdleRetrain == [pc |-> "idle"]

FreeSlots(calls) == {c \in DOMAIN calls : calls[c].pc = "idle"}
FirstFree(calls) == CHOOSE c \in FreeSlots(calls) : \A d \in FreeSlots(calls) : c <= d

\* The history of a run of confirmations: the samples sent and the number
\* of head removals since the last load, as long as nothing but acknowledged
\* confirmations happened to the queue since that load.
FreshRun == [clean |-> TRUE, sent |-> <<>>, removals |-> 0]
DirtyRun == [clean |-> FALSE, sent |-> <<>>, removals |-> 0]

\* --------------------------------------------------------------- Init
Init ==
    /\ samples = <<>>
    /\ stats = {}
    /\ loading = TRUE
    /\ processing = FALSE
    /\ correctionMode = FALSE
    /\ notification = {}
    /\ timers = {}
    \* useEffect: fetchData() runs on mount
    /\ fetches = [f \in 1..MaxFetches |->
                    IF f = 1 THEN [pc |-> "await", samplesRes |-> Pending,
                                   statsRes |-> Pending]
                    ELSE IdleFetch]
    /\ reviews = [c \in 1..MaxReviews |-> IdleReview]
    /\ retrains = [r \in 1..MaxRetrains |-> IdleRetrain]
    /\ gwPending = <<>>
    /\ gwArrived = 0
    /\ gwReviewed = 0
    /\ gwRetraining = FALSE
    /\ refreshes = 0
    /\ retrainClicks = 0
    /\ faults = 0
    /\ submits = 0
    /\ lastReview = [outcome |-> "none", effects |-> <<>>]
    /\ live = TRUE
    \* useEffect: setInterval(fetchData, 30000)
    /\ interval = {RefreshInterval}
    /\ lastLoad = <<>>
    /\ confirmRun = FreshRun
    /\ emptyCalls = 0

\* A state setter of useState called with next: the slice takes the value
\* while the component is mounted; React drops the update of an unmounted
\* component.
SetStateUnmounted(prev, next) == next
SetState(prev, next) == IF live THEN next ELSE prev

\* ------------------------------------------------ notification scheduler
\* showNotification(message, type): setNotification, then setTimeout. The
\* timers already pending are left alone. Timers due at the same instant run
\* the same callback, setNotification(null), and are kept as one.
showNotification(message, type) ==
    /\ notification' = SetState(notification, {[message |-> message, type |-> type]})
    /\ timers' = timers \cup {NotificationTimeout}

\* The time left of a timer once the clock has advanced by TickUnit.
Elapse(ts) == {IF t > TickUnit THEN t - TickUnit ELSE 0 : t \in ts}

\* The clock advances while neither a timeout nor the interval is due.
Tick ==
    /\ timers # {} \/ interval # {}
    /\ \A t \in timers \cup interval : t > 0
    /\ timers' = Elapse(timers)
    /\ interval' = Elapse(interval)
    /\ UNCHANGED <<notification, uiVars, callVars, gwVars, envVars, live, histVars>>

\* () => setNotification(null): the callback of the timeout t runs. When it
\* runs is left open here.
TimerExpires(t) ==
    /\ t \in timers
    /\ timers' = timers \ {t}
    /\ notification' = SetState(notification, {})
    /\ UNCHANGED <<uiVars, callVars, gwVars, envVars, lifeVars, histVars>>

\* The callback of a timeout runs when the clock has reached its delay.
TimerFires == \E t \in timers : t <= 0 /\ TimerExpires(t)

\* ------------------------------------------------------- remote gateway
\* The upstream classifier emits the next sample.
GwArrive ==
    /\ gwArrived < NumSamples
    /\ gwArrived' = gwArrived + 1
    /\ gwPending' = Append(gwPending, Sample(gwArrived + 1))
    /\ UNCHANGED <<gwReviewed, gwRetraining, uiVars, notifVars, callVars, envVars, lifeVars, histVars>>

\* The retraining job ends.
GwRetrainDone ==
    /\ gwRetraining
    /\ gwRetraining' = FALSE
    /\ UNCHANGED <<gwPending, gwArrived, gwReviewed, uiVars, notifVars, callVars, envVars, lifeVars, histVars>>

\* The outcome of a gateway call: as expected, or one more fault.
NoFault == faults' = faults
Fault == faults < MaxFaults /\ faults' = faults + 1
Outcome(ok) == IF ok THEN NoFault ELSE Fault

\* GET /load_samples of run f is answered with the pending list as it is now.
GwLoadSamples(f) ==
    /\ fetches[f].pc = "await"
    /\ fetches[f].samplesRes.st = "pending"
    /\ \E ok \in BOOLEAN :
        /\ Outcome(ok)
        /\ fetches' = [fetches EXCEPT ![f].samplesRes = SamplesBody(ok)]
    /\ UNCHANGED <<reviews, retrains, uiVars, notifVars, gwVars, refreshes, retrainClicks, submits, lastReview, lifeVars, histVars>>

\* GET /stats of run f is answered with the snapshot as it is now.
GwStats(f) ==
    /\ fetches[f].pc = "await"
    /\ fetches[f].statsRes.st = "pending"
    /\ \E ok \in BOOLEAN :
        /\ Outcome(ok)
        /\ fetches' = [fetches EXCEPT ![f].statsRes = StatsBody(ok)]
    /\ UNCHANGED <<reviews, retrains, uiVars, notifVars, gwVars, refreshes, retrainClicks, submits, lastReview, lifeVars, histVars>>

\* One of the two fetches of run f rejects, or its body does not parse.
FetchFails(f) ==
    /\ fetches[f].pc = "await"
    /\ \/ /\ fetches[f].samplesRes.st = "pending"
          /\ fetches' = [fetches EXCEPT ![f].samplesRes = Failed]
       \/ /\ fetches[f].statsRes.st = "pending"
          /\ fetches' = [fetches EXCEPT ![f].statsRes = Failed]
    /\ Fault
    /\ UNCHANGED <<reviews, retrains, uiVars, notifVars, gwVars, refreshes, retrainClicks, submits, lastReview, lifeVars, histVars>>

\* POST /review of call c: the gateway acknowledges (success: true), which
\* removes the sample from its pending list and counts the review, or
\* rejects (success: false).
GwReview(c) ==
    /\ reviews[c].pc = "review"
    /\ reviews[c].res.st = "pending"
    /\ \/ /\ gwPending' = Without(gwPending, reviews[c].currentSample)
          /\ gwReviewed' = gwReviewed + 1
          /\ reviews' = [reviews EXCEPT ![c].res = ReviewBody(TRUE)]
          /\ NoFault
       \/ /\ reviews' = [reviews EXCEPT ![c].res = ReviewBody(FALSE)]
          /\ Fault
          /\ UNCHANGED <<gwPending, gwReviewed>>
    /\ UNCHANGED <<gwArrived, gwRetraining, fetches, retrains, uiVars, notifVars,
                   refreshes, retrainClicks, submits, lastReview, lifeVars, histVars>>

\* GET /stats of call c (the re-fetch after an acknowledged review).
GwReviewStats(c) ==
    /\ reviews[c].pc = "stats"
    /\ reviews[c].res.st = "pending"
    /\ \E ok \in BOOLEAN :
        /\ Outcome(ok)
        /\ reviews' = [reviews EXCEPT ![c].res = StatsBody(ok)]
    /\ UNCHANGED <<fetches, retrains, uiVars, notifVars, gwVars, refreshes, retrainClicks, submits, lastReview, lifeVars, histVars>>

\* The fetch call c is waiting for rejects, or its body does not parse.
ReviewFetchFails(c) ==
    /\ reviews[c].pc \in {"review", "stats"}
    /\ reviews[c].res.st = "pending"
    /\ reviews' = [reviews EXCEPT ![c].res = Failed]
    /\ Fault
    /\ UNCHANGED <<fetches, retrains, uiVars, notifVars, gwVars, refreshes, retrainClicks, submits, lastReview, lifeVars, histVars>>

\* POST /trigger_retraining of call r: the gateway starts the job, or
\* answers that it did not.
GwRetrain(r) ==
    /\ retrains[r].pc = "await"
    /\ retrains[r].res.st = "pending"
    /\ \E ok \in BOOLEAN :
        /\ Outcome(ok)
        /\ retrains' = [retrains EXCEPT ![r].res = RetrainBody(ok)]
        /\ gwRetraining' = (gwRetraining \/ ok)
    /\ UNCHANGED <<gwPending, gwArrived, gwReviewed, fetches, reviews, uiVars, notifVars,
                   refreshes, retrainClicks, submits, lastReview, lifeVars, histVars>>

RetrainFetchFails(r) ==
    /\ retrains[r].pc = "await"
    /\ retrains[r].res.st = "pending"
    /\ retrains' = [retrains EXCEPT ![r].res = Failed]
    /\ Fault
    /\ UNCHANGED <<fetches, reviews, uiVars, notifVars, gwVars, refreshes, retrainClicks, submits, lastReview, lifeVars, histVars>>

\* ------------------------------------------------------------ fetchData
\* fetchData(): both fetches are issued (Promise.all).
fetchData ==
    /\ FreeSlots(fetches) # {}
    /\ fetches' = [fetches EXCEPT ![FirstFree(fetches)] =
                      [pc |-> "await", samplesRes |-> Pending, statsRes |-> Pending]]

\* setInterval(fetchData, 30000): the callback of the interval runs and the
\* next period starts. When it runs is left open here.
RefreshTick ==
    /\ interval # {}
    /\ interval' = {RefreshInterval}
    /\ refreshes < MaxRefreshes
    /\ refreshes' = refreshes + 1
    /\ fetchData
    /\ UNCHANGED <<reviews, retrains, uiVars, notifVars, gwVars, retrainClicks, faults, submits, lastReview, live, histVars>>

\* The interval is due.
RefreshDue == \E t \in interval : t <= 0

\* The callback of the interval runs when the clock has reached its period.
RefreshOnTime == RefreshDue /\ RefreshTick

\* An unmount that leaves the interval running.
DisposeKeepsInterval ==
    /\ live
    /\ live' = FALSE
    /\ interval' = interval
    /\ UNCHANGED <<uiVars, notifVars, callVars, gwVars, envVars, histVars>>

\* The component unmounts: the cleanup of the effect runs,
\* clearInterval(interval). Timeouts and requests in flight are left alone.
Dispose ==
    /\ live
    /\ live' = FALSE
    /\ interval' = {}
    /\ UNCHANGED <<uiVars, notifVars, callVars, gwVars, envVars, histVars>>

\* A load that puts the newest sample first.
RECURSIVE Reverse(_)
Reverse(q) == IF q = <<>> THEN <<>> ELSE Append(Reverse(Tail(q)), Head(q))
ApplySamplesNewestFirst(r, prev) ==
    IF r.samplesRes.success THEN Reverse(r.samplesRes.samples) ELSE prev

\* What a settled run applies to a slice: the body's value when success is
\* set, the previous value otherwise.
ApplySamples(r, prev) == IF r.samplesRes.success THEN r.samplesRes.samples ELSE prev
ApplyStats(r, prev) == IF r.statsRes.success THEN r.statsRes.stats ELSE prev

\* Promise.all has settled: it rejects as soon as one fetch rejects, and
\* resolves when both have resolved.
FetchSettled(r) ==
    \/ r.samplesRes.st = "fail"
    \/ r.statsRes.st = "fail"
    \/ (r.samplesRes.st = "ok" /\ r.statsRes.st = "ok")

FetchThrows(r) == r.samplesRes.st = "fail" \/ r.statsRes.st = "fail"

\* Run f ends with setSamples(samplesData.samples) taking effect.
LoadApplied(f) ==
    /\ live
    /\ ~FetchThrows(fetches[f])
    /\ fetches[f].samplesRes.success

\* A fetchData whose catch block is not followed by a finally block.
FetchDataContinuesNoFinally(f) ==
    /\ fetches[f].pc = "await"
    /\ FetchSettled(fetches[f])
    /\ IF FetchThrows(fetches[f])
       THEN /\ showNotification("Error connecting to Firewall API", "error")
            /\ UNCHANGED <<samples, stats, loading>>
       ELSE /\ samples' = SetState(samples, ApplySamples(fetches[f], samples))
            /\ stats' = SetState(stats, ApplyStats(fetches[f], stats))
            /\ loading' = SetState(loading, FALSE)
            /\ UNCHANGED notifVars
    /\ lastLoad' = IF LoadApplied(f) THEN fetches[f].samplesRes.samples ELSE lastLoad
    /\ confirmRun' = IF ~LoadApplied(f) THEN confirmRun
                     ELSE IF \A c \in 1..MaxReviews : reviews[c].pc = "idle" THEN FreshRun
                     ELSE DirtyRun
    /\ fetches' = [fetches EXCEPT ![f] = IdleFetch]
    /\ UNCHANGED <<processing, correctionMode, reviews, retrains, gwVars, envVars,
                   lifeVars, emptyCalls>>

\* The rest of fetchData after the awaits: try / catch / finally.
FetchDataContinues(f) ==
    /\ fetches[f].pc = "await"
    /\ FetchSettled(fetches[f])
    /\ IF FetchThrows(fetches[f])
       THEN /\ showNotification("Error connecting to Firewall API", "error")
            /\ UNCHANGED <<samples, stats>>
       ELSE /\ samples' = SetState(samples, ApplySamples(fetches[f], samples))
            /\ stats' = SetState(stats, ApplyStats(fetches[f], stats))
            /\ UNCHANGED notifVars
    /\ lastLoad' = IF LoadApplied(f) THEN fetches[f].samplesRes.samples ELSE lastLoad
    /\ confirmRun' = IF ~LoadApplied(f) THEN confirmRun
                     ELSE IF \A c \in 1..MaxReviews : reviews[c].pc = "idle" THEN FreshRun
                     ELSE DirtyRun
    /\ loading' = SetState(loading, FALSE)
    /\ fetches' = [fetches EXCEPT ![f] = IdleFetch]
    /\ UNCHANGED <<processing, correctionMode, reviews, retrains, gwVars, envVars, lifeVars, emptyCalls>>

\* --------------------------------------------------------- handleReview
\* A filter that keeps only the ordinals above the predicted one.
CorrectionOptionsAbove(s) == {a \in ActionOrdinals : a > s.predicted_action}

\* [0, 1, 2].filter(a => a !== currentSample.predicted_action)
CorrectionOptions(s) == {a \in ActionOrdinals : a # s.predicted_action}

\* A handleReview that sets the latch before it looks at the queue.
handleReviewLatchesFirst(isCorrect, correctedAction) ==
    IF Len(samples) = 0
    THEN /\ emptyCalls < MaxEmptyCalls
         /\ emptyCalls' = emptyCalls + 1
         /\ processing' = SetState(processing, TRUE)
         /\ UNCHANGED <<reviews, submits, confirmRun>>
    ELSE /\ FreeSlots(reviews) # {}
         /\ submits < MaxSubmits
         /\ submits' = submits + 1
         /\ processing' = SetState(processing, TRUE)
         /\ reviews' = [reviews EXCEPT ![FirstFree(reviews)] =
                           [pc |-> "review",
                            currentSample |-> samples[1],
                            isCorrect |-> isCorrect,
                            correctedAction |-> correctedAction,
                            res |-> Pending,
                            effects |-> <<>>]]
         /\ confirmRun' = IF confirmRun.clean /\ isCorrect
                          THEN [confirmRun EXCEPT !.sent = Append(@, samples[1])]
                          ELSE DirtyRun
         /\ UNCHANGED emptyCalls

\* handleReview(isCorrect, correctedAction) up to its first await: the
\* early return on an empty queue, setProcessing(true), the POST. The
\* closure keeps samples[0] as currentSample.
handleReview(isCorrect, correctedAction) ==
    IF Len(samples) = 0
    THEN /\ emptyCalls < MaxEmptyCalls
         /\ emptyCalls' = emptyCalls + 1
         /\ UNCHANGED <<processing, reviews, submits, confirmRun>>
    ELSE /\ FreeSlots(reviews) # {}
         /\ submits < MaxSubmits
         /\ submits' = submits + 1
         /\ processing' = SetState(processing, TRUE)
         /\ reviews' = [reviews EXCEPT ![FirstFree(reviews)] =
                           [pc |-> "review",
                            currentSample |-> samples[1],
                            isCorrect |-> isCorrect,
                            correctedAction |-> correctedAction,
                            res |-> Pending,
                            effects |-> <<>>]]
         /\ confirmRun' = IF confirmRun.clean /\ isCorrect
                          THEN [confirmRun EXCEPT !.sent = Append(@, samples[1])]
                          ELSE DirtyRun
         /\ UNCHANGED emptyCalls

\* The severity of the notification of an acknowledged review.
ReviewSeverity(isCorrect) == IF isCorrect THEN "success" ELSE "warning"

\* A catch block with no finally: the latch is left as it is.
ReviewCatchNoFinally(c) ==
    /\ showNotification("Failed to submit review", "error")
    /\ processing' = processing
    /\ reviews' = [reviews EXCEPT ![c] = IdleReview]
    /\ lastReview' = [outcome |-> "failed", effects |-> reviews[c].effects]
    /\ confirmRun' = IF reviews[c].pc = "review" THEN DirtyRun ELSE confirmRun
    /\ UNCHANGED <<samples, stats, correctionMode>>

\* The catch and finally blocks of handleReview.
ReviewCatch(c) ==
    /\ showNotification("Failed to submit review", "error")
    /\ processing' = SetState(processing, FALSE)
    /\ reviews' = [reviews EXCEPT ![c] = IdleReview]
    /\ lastReview' = [outcome |-> "failed", effects |-> reviews[c].effects]
    /\ confirmRun' = IF reviews[c].pc = "review" THEN DirtyRun ELSE confirmRun
    /\ UNCHANGED <<samples, stats, correctionMode>>

\* A rejected review that removes the head all the same.
ReviewRejectedDequeues(c) ==
    /\ processing' = SetState(processing, FALSE)
    /\ samples' = SetState(samples, Slice1(samples))
    /\ reviews' = [reviews EXCEPT ![c] = IdleReview]
    /\ lastReview' = [outcome |-> "rejected", effects |-> <<"dequeue">>]
    /\ confirmRun' = DirtyRun
    /\ UNCHANGED <<stats, correctionMode, notifVars>>

\* The review response is not a success: only the finally block runs.
ReviewRejected(c) ==
    /\ processing' = SetState(processing, FALSE)
    /\ reviews' = [reviews EXCEPT ![c] = IdleReview]
    /\ lastReview' = [outcome |-> "rejected", effects |-> reviews[c].effects]
    /\ confirmRun' = DirtyRun
    /\ UNCHANGED <<samples, stats, correctionMode, notifVars>>

\* An acknowledgement that leaves correction mode before the stats re-fetch.
ReviewAcknowledgedExitsEarly(c) ==
    /\ showNotification(reviews[c].res.message, ReviewSeverity(reviews[c].isCorrect))
    /\ samples' = SetState(samples, Slice1(samples))
    /\ correctionMode' = SetState(correctionMode, FALSE)
    /\ reviews' = [reviews EXCEPT ![c] =
                       [pc |-> "stats", res |-> Pending,
                        effects |-> <<"notification", "dequeue", "correction-exit">>]]
    /\ confirmRun' = IF confirmRun.clean /\ live
                     THEN [confirmRun EXCEPT !.removals = @ + 1]
                     ELSE DirtyRun
    /\ UNCHANGED <<stats, processing, lastReview>>

\* result.success: the notification, the dequeue, then the stats re-fetch is
\* issued.
ReviewAcknowledged(c) ==
    /\ showNotification(reviews[c].res.message, ReviewSeverity(reviews[c].isCorrect))
    /\ samples' = SetState(samples, Slice1(samples))
    /\ reviews' = [reviews EXCEPT ![c] =
                       [pc |-> "stats", res |-> Pending,
                        effects |-> <<"notification", "dequeue">>]]
    /\ confirmRun' = IF confirmRun.clean /\ live
                     THEN [confirmRun EXCEPT !.removals = @ + 1]
                     ELSE DirtyRun
    /\ UNCHANGED <<stats, correctionMode, processing, lastReview>>

\* handleReview from the review response to its next await or its end.
ReviewResponse(c) ==
    /\ reviews[c].pc = "review"
    /\ reviews[c].res.st # "pending"
    /\ IF reviews[c].res.st = "fail" THEN ReviewCatch(c)
       ELSE IF reviews[c].res.success THEN ReviewAcknowledged(c)
       ELSE ReviewRejected(c)
    /\ UNCHANGED <<loading, fetches, retrains, gwVars, refreshes, retrainClicks,
                   faults, submits, lifeVars, lastLoad, emptyCalls>>

\* A stats re-fetch that sets the stats without looking at success.
ReviewStatsAppliedUnchecked(c) ==
    /\ stats' = SetState(stats, reviews[c].res.stats)
    /\ correctionMode' = SetState(correctionMode, FALSE)
    /\ processing' = SetState(processing, FALSE)
    /\ reviews' = [reviews EXCEPT ![c] = IdleReview]
    /\ lastReview' = [outcome |-> "done",
                      effects |-> reviews[c].effects \o <<"stats", "correction-exit">>]
    /\ UNCHANGED <<samples, notifVars, confirmRun>>

\* The stats re-fetch resolved: setStats on success, setCorrectionMode(false),
\* then the finally block.
ReviewStatsApplied(c) ==
    /\ stats' = SetState(stats, IF reviews[c].res.success THEN reviews[c].res.stats
                                ELSE stats)
    /\ correctionMode' = SetState(correctionMode, FALSE)
    /\ processing' = SetState(processing, FALSE)
    /\ reviews' = [reviews EXCEPT ![c] = IdleReview]
    /\ lastReview' = [outcome |-> "done",
                      effects |-> reviews[c].effects \o <<"stats", "correction-exit">>]
    /\ UNCHANGED <<samples, notifVars, confirmRun>>

\* handleReview from the response of the stats re-fetch to its end.
ReviewStatsResponse(c) ==
    /\ reviews[c].pc = "stats"
    /\ reviews[c].res.st # "pending"
    /\ IF reviews[c].res.st = "fail" THEN ReviewCatch(c)
       ELSE ReviewStatsApplied(c)
    /\ UNCHANGED <<loading, fetches, retrains, gwVars, refreshes, retrainClicks,
                   faults, submits, lifeVars, lastLoad, emptyCalls>>

\* ---------------------------------------------------- triggerRetraining
\* The retrain button: disabled={stats?.retraining_in_progress}.
RetrainDisabled == \E s \in stats : s.retraining_in_progress

\* A retrain button that is also disabled while a request is in flight.
triggerRetrainingLatched ==
    /\ live
    /\ ~loading
    /\ ~RetrainDisabled
    /\ \A r \in 1..MaxRetrains : retrains[r].pc = "idle"
    /\ retrainClicks < MaxRetrainClicks
    /\ retrainClicks' = retrainClicks + 1
    /\ retrains' = [retrains EXCEPT ![FirstFree(retrains)] =
                       [pc |-> "await", res |-> Pending]]
    /\ UNCHANGED <<fetches, reviews, uiVars, notifVars, gwVars, refreshes, faults, submits, lastReview, lifeVars, histVars>>

\* triggerRetraining() up to its await.
triggerRetraining ==
    /\ live
    /\ ~loading
    /\ ~RetrainDisabled
    /\ FreeSlots(retrains) # {}
    /\ retrainClicks < MaxRetrainClicks
    /\ retrainClicks' = retrainClicks + 1
    /\ retrains' = [retrains EXCEPT ![FirstFree(retrains)] =
                       [pc |-> "await", res |-> Pending]]
    /\ UNCHANGED <<fetches, reviews, uiVars, notifVars, gwVars, refreshes, faults, submits, lastReview, lifeVars, histVars>>

\* triggerRetraining after its await.
RetrainResponse(r) ==
    /\ retrains[r].pc = "await"
    /\ retrains[r].res.st # "pending"
    /\ IF retrains[r].res.st = "fail"
       THEN /\ showNotification("Failed to trigger retraining", "error")
            /\ UNCHANGED fetches
       ELSE /\ showNotification(retrains[r].res.message, "success")
            /\ fetchData
    /\ retrains' = [retrains EXCEPT ![r] = IdleRetrain]
    /\ UNCHANGED <<reviews, uiVars, gwVars, envVars, lifeVars, histVars>>

\* ------------------------------------------------------------ operator
\* The action area is rendered once loading is over and a head exists.
ActionAreaShown == live /\ ~loading /\ Len(samples) > 0

\* The confirm button: onClick={() => handleReview(true)}, disabled={processing}.
ClickConfirm ==
    /\ ActionAreaShown
    /\ ~correctionMode
    /\ ~processing
    /\ handleReview(TRUE, {})
    /\ UNCHANGED <<samples, stats, loading, correctionMode, notifVars,
                   fetches, retrains, gwVars, refreshes, retrainClicks, faults,
                   lastReview, lifeVars, lastLoad>>

\* The reject button: onClick={() => setCorrectionMode(true)}, disabled={processing}.
ClickIncorrect ==
    /\ ActionAreaShown
    /\ ~correctionMode
    /\ ~processing
    /\ correctionMode' = TRUE
    /\ UNCHANGED <<samples, stats, loading, processing, notifVars, callVars, gwVars, envVars, lifeVars, histVars>>

\* A correction panel that renders all three ordinals.
OfferedCorrectionsUnfiltered ==
    IF ActionAreaShown /\ correctionMode THEN ActionOrdinals ELSE {}

\* The options the correction panel renders for the head sample.
OfferedCorrections ==
    IF ActionAreaShown /\ correctionMode THEN CorrectionOptions(samples[1]) ELSE {}

\* A correction option: onClick={() => handleReview(false, action)}.
ClickOption(action) ==
    /\ action \in OfferedCorrections
    /\ handleReview(FALSE, {action})
    /\ UNCHANGED <<samples, stats, loading, correctionMode, notifVars,
                   fetches, retrains, gwVars, refreshes, retrainClicks, faults,
                   lastReview, lifeVars, lastLoad>>

\* handleReview called by something other than the rendered buttons, in
\* whatever state the controller is.
CallHandleReview(isCorrect, correctedAction) ==
    /\ live
    /\ handleReview(isCorrect, correctedAction)
    /\ UNCHANGED <<samples, stats, loading, correctionMode, notifVars,
                   fetches, retrains, gwVars, refreshes, retrainClicks, faults,
                   lastReview, lifeVars, lastLoad>>

\* The cancel button: onClick={() => setCorrectionMode(false)}.
ClickCancel ==
    /\ ActionAreaShown
    /\ correctionMode
    /\ correctionMode' = FALSE
    /\ UNCHANGED <<samples, stats, loading, processing, notifVars, callVars, gwVars, envVars, lifeVars, histVars>>

\* ------------------------------------------------------- specification
\* The clock and the notification timers.
ClockStep ==
    \/ Tick
    \/ TimerFires

\* The gateway's own steps and the periodic refresh.
GatewayStep ==
    \/ GwArrive
    \/ RefreshTick

\* The gateway's own steps and the periodic refresh under the clock.
TimedGatewayStep ==
    \/ GwArrive
    \/ RefreshOnTime

\* A run of fetchData and its two gateway calls.
FetchStep ==
    \/ \E f \in 1..MaxFetches : GwLoadSamples(f)
    \/ \E f \in 1..MaxFetches : GwStats(f)
    \/ \E f \in 1..MaxFetches : FetchFails(f)
    \/ \E f \in 1..MaxFetches : FetchDataContinues(f)

\* The operator's buttons of the action area, and the calls of handleReview.
ReviewStep ==
    \/ ClickConfirm
    \/ ClickIncorrect
    \/ \E action \in ActionOrdinals : ClickOption(action)
    \/ ClickCancel
    \/ \E c \in 1..MaxReviews : GwReview(c)
    \/ \E c \in 1..MaxReviews : GwReviewStats(c)
    \/ \E c \in 1..MaxReviews : ReviewFetchFails(c)
    \/ \E c \in 1..MaxReviews : ReviewResponse(c)
    \/ \E c \in 1..MaxReviews : ReviewStatsResponse(c)

\* The decisions handleReview is called with.
Decisions == {<<TRUE, {}>>} \cup {<<FALSE, {a}>> : a \in ActionOrdinals}

\* Calls of handleReview that do not come from the rendered buttons.
DirectStep == \E d \in Decisions : CallHandleReview(d[1], d[2])

\* The retrain button and the calls of triggerRetraining.
RetrainStep ==
    \/ triggerRetraining
    \/ GwRetrainDone
    \/ \E r \in 1..MaxRetrains : GwRetrain(r)
    \/ \E r \in 1..MaxRetrains : RetrainFetchFails(r)
    \/ \E r \in 1..MaxRetrains : RetrainResponse(r)

Next ==
    \/ ClockStep
    \/ TimedGatewayStep
    \/ FetchStep
    \/ ReviewStep
    \/ RetrainStep
    \/ Dispose

\* The whole system. The specifications below keep part of the environment
\* still, which keeps their state spaces small.
Spec == Init /\ [][Next]_vars

\* The review flow: loads and reviews interleave; the clock is not followed
\* (a refresh may come at any time) and nobody retrains.
NextReview ==
    \/ GatewayStep
    \/ FetchStep
    \/ ReviewStep

SpecReview == Init /\ [][NextReview]_vars

\* The review flow with handleReview also called directly.
NextDirect ==
    \/ NextReview
    \/ DirectStep

SpecDirect == Init /\ [][NextDirect]_vars

\* The notification flow: loads, retraining and the clock; no sample arrives.
NextNotify ==
    \/ ClockStep
    \/ RefreshOnTime
    \/ FetchStep
    \/ RetrainStep

SpecNotify == Init /\ [][NextNotify]_vars

\* The retraining flow: loads and retraining; the clock is not followed.
NextRetrain ==
    \/ GatewayStep
    \/ FetchStep
    \/ RetrainStep

SpecRetrain == Init /\ [][NextRetrain]_vars

\* A pending timeout expires.
TimeoutStep == \E t \in timers : TimerExpires(t)

\* The operator of the teardown flow: one review and one retraining request
\* at most.
FirstConfirm == submits = 0 /\ ClickConfirm
FirstOption(action) == submits = 0 /\ ClickOption(action)
FirstRetrain == retrainClicks = 0 /\ triggerRetraining

\* The teardown flow: the component unmounts at any moment of a run with a
\* load, a review and a retraining request; whatever is in flight or armed
\* then is answered, handled or expires afterwards. The clock is not
\* followed (a timeout may expire at any time).
NextDispose ==
    \/ Dispose
    \/ TimeoutStep
    \/ GwArrive
    \/ FetchStep
    \/ ClickIncorrect
    \/ ClickCancel
    \/ FirstConfirm
    \/ \E action \in ActionOrdinals : FirstOption(action)
    \/ \E c \in 1..MaxReviews : GwReview(c)
    \/ \E c \in 1..MaxReviews : GwReviewStats(c)
    \/ \E c \in 1..MaxReviews : ReviewFetchFails(c)
    \/ \E c \in 1..MaxReviews : ReviewResponse(c)
    \/ \E c \in 1..MaxReviews : ReviewStatsResponse(c)
    \/ FirstRetrain
    \/ GwRetrainDone
    \/ \E r \in 1..MaxRetrains : GwRetrain(r)
    \/ \E r \in 1..MaxRetrains : RetrainFetchFails(r)
    \/ \E r \in 1..MaxRetrains : RetrainResponse(r)

SpecDispose == Init /\ [][NextDispose]_vars

\* The life of the refresh interval: the clock, the loads and the unmount.
NextRefresh ==
    \/ ClockStep
    \/ TimedGatewayStep
    \/ FetchStep
    \/ Dispose

SpecRefresh == Init /\ [][NextRefresh]_vars

\* The loads alone: the first run of fetchData and the refreshes.
NextLoad ==
    \/ GatewayStep
    \/ FetchStep

SpecLoad == Init /\ [][NextLoad]_vars

\* The loads under the scheduling the runtime guarantees: each of the two
\* requests of a run is answered or fails, and the continuation of a settled
\* run is run.
LoadFairness ==
    \A f \in 1..MaxFetches :
        /\ WF_vars(GwLoadSamples(f) \/ FetchFails(f))
        /\ WF_vars(GwStats(f) \/ FetchFails(f))
        /\ WF_vars(FetchDataContinues(f))

FairSpecLoad == SpecLoad /\ LoadFairness

\* The review flow under the scheduling the runtime guarantees: a continuation
\* whose awaited promise has settled is run, and every review or stats request
\* is answered or fails.
ReviewFairness ==
    \A c \in 1..MaxReviews :
        /\ WF_vars(GwReview(c) \/ ReviewFetchFails(c))
        /\ WF_vars(GwReviewStats(c) \/ ReviewFetchFails(c))
        /\ WF_vars(ReviewResponse(c))
        /\ WF_vars(ReviewStatsResponse(c))

FairSpecReview == SpecReview /\ ReviewFairness

\* ---------------------------------------------------------------- claims
\* Review requests sent whose response has not been handled yet.
ReviewsInFlight == {c \in 1..MaxReviews : reviews[c].pc = "review"}

\* Call c handles its review response in this step.
HandlesReviewResponse(c) == reviews[c].pc = "review" /\ reviews'[c].pc # "review"

\* Call c ends in this step.
Finishes(c) == reviews[c].pc # "idle" /\ reviews'[c].pc = "idle"

\* C1: submitReview is single-flight: at every reachable state at most one
\* review request is in flight, whether the second call comes from the Direct
\* state or from the Correcting state.
CE_C1 == Cardinality(ReviewsInFlight) <= 1

\* C2: the element dropped by the head removal that follows an
\* acknowledgement is the sample that was sent in the acknowledged request.
CE_C2 ==
    [][\A c \in 1..MaxReviews :
          (HandlesReviewResponse(c) /\ reviews'[c].pc = "stats" /\ samples # <<>>)
              => Head(samples) = reviews[c].currentSample]_vars

\* C3: a notification is cleared only by its own timer, NotificationTimeout
\* after it was set: the timer of an older notification does not clear a newer
\* one. The newest pending timer is the one of the visible notification.
CE_C3 ==
    [][(notification # {} /\ notification' = {})
          => \A t \in timers : t <= 0]_vars

\* Run f of fetchData ends in this step.
FetchEnds(f) == fetches[f].pc = "await" /\ fetches'[f].pc = "idle"

\* C4: when exactly one of the two calls of initialize fails and the other
\* succeeds, the successful slice is applied.
CE_C4 ==
    [][\A f \in 1..MaxFetches :
          FetchEnds(f) =>
              /\ (/\ fetches[f].statsRes.st = "fail"
                  /\ fetches[f].samplesRes.st = "ok"
                  /\ fetches[f].samplesRes.success)
                     => samples' = fetches[f].samplesRes.samples
              /\ (/\ fetches[f].samplesRes.st = "fail"
                  /\ fetches[f].statsRes.st = "ok"
                  /\ fetches[f].statsRes.success)
                     => stats' = fetches[f].statsRes.stats]_vars

\* Call c has a well-formed response with success = false in hand.
Rejected(c) ==
    /\ reviews[c].pc = "review"
    /\ reviews[c].res.st = "ok"
    /\ ~reviews[c].res.success

\* C5: handling a review response with success = false dequeues nothing,
\* raises no notification and leaves queue, stats, correction mode and the
\* notification slot as they were; only the latch goes back to idle.
Thm_C5 ==
    [][\A c \in 1..MaxReviews :
          /\ (reviews[c].pc = "idle" /\ reviews'[c].pc = "review") =>
                /\ UNCHANGED <<samples, stats, correctionMode, notification, timers>>
                /\ processing' = TRUE
          /\ (Rejected(c) /\ HandlesReviewResponse(c)) =>
                /\ UNCHANGED <<samples, stats, correctionMode, notification, timers>>
                /\ processing' = FALSE
                /\ reviews'[c].pc = "idle"
                /\ lastReview'.effects = <<>>]_vars

\* A rejected review was handled: the head is still there and the latch is
\* idle again.
Wit_C5 ==
    /\ lastReview.outcome = "rejected"
    /\ samples # <<>>
    /\ ~processing

Has(seq, e) == \E i \in 1..Len(seq) : seq[i] = e

\* C6: a call of submitReview that ends with the notification "Failed to
\* submit review" has changed neither the queue nor the correction mode,
\* whichever of its gateway calls failed.
CE_C6 ==
    lastReview.outcome = "failed" =>
        /\ ~Has(lastReview.effects, "dequeue")
        /\ ~Has(lastReview.effects, "correction-exit")

\* C7: every call that entered processing ends with the latch idle, on every
\* path, and with no call in flight the latch is idle, so the next
\* submission is accepted.
Thm_C7 ==
    /\ \A c \in 1..MaxReviews :
          (reviews[c].pc # "idle") ~> (reviews[c].pc = "idle" /\ ~processing)
    /\ []((\A c \in 1..MaxReviews : reviews[c].pc = "idle") => ~processing)

\* A call failed in transport and the controller is idle again, the head
\* still there to be submitted.
Wit_C7 ==
    /\ lastReview.outcome = "failed"
    /\ \A c \in 1..MaxReviews : reviews[c].pc = "idle"
    /\ ~processing
    /\ ~correctionMode
    /\ ActionAreaShown

EffectOrder == <<"notification", "dequeue", "stats", "correction-exit">>

IsPrefix(p, s) == Len(p) <= Len(s) /\ SubSeq(s, 1, Len(p)) = p

\* C8: the effects of a call happen in the order notification, dequeue, stats
\* refresh, correction-mode exit, all after the acknowledgement: a call whose
\* review is not acknowledged yet has had no effect, sending the request
\* changes no slice, the notification and the dequeue come with the handling
\* of the acknowledgement, the stats refresh and the correction-mode exit with
\* the later handling of the stats response.
Thm_C8 ==
    /\ [](\A c \in 1..MaxReviews :
            /\ reviews[c].pc = "review" => reviews[c].effects = <<>>
            /\ reviews[c].pc = "stats" => IsPrefix(reviews[c].effects, EffectOrder))
    /\ [](IsPrefix(lastReview.effects, EffectOrder))
    /\ [][\A c \in 1..MaxReviews :
            /\ (reviews[c].pc = "idle" /\ reviews'[c].pc = "review")
                  => UNCHANGED <<samples, stats, correctionMode, notification>>
            /\ (HandlesReviewResponse(c) /\ reviews'[c].pc = "stats")
                  => /\ reviews[c].res.st = "ok" /\ reviews[c].res.success
                     /\ notification' # {}
                     /\ samples' = Slice1(samples)
                     /\ UNCHANGED <<stats, correctionMode>>
            /\ (HandlesReviewResponse(c) /\ reviews'[c].pc = "idle")
                  => UNCHANGED <<samples, stats, correctionMode>>
            /\ (reviews[c].pc = "stats" /\ reviews'[c].pc = "idle")
                  => samples' = samples]_vars

\* A call went through all four effects and the stats show its review.
Wit_C8 ==
    /\ lastReview.outcome = "done"
    /\ lastReview.effects = EffectOrder
    /\ \E s \in stats : s.total_reviewed > 0

\* The head of the queue is another sample after this step.
HeadChanges ==
    /\ samples' # <<>>
    /\ samples = <<>> \/ Head(samples') # Head(samples)

\* C9: after an acknowledged submission that dequeued the head, the
\* correction mode is Direct once the submission has finished, and a load
\* that replaces the head leaves the controller in Direct.
CE_C9 ==
    [][/\ \A c \in 1..MaxReviews :
            (reviews[c].pc = "stats" /\ Finishes(c)) => ~correctionMode'
       /\ \A f \in 1..MaxFetches :
            (FetchEnds(f) /\ HeadChanges) => ~correctionMode']_vars

\* C10: in the Correcting state the operator is offered exactly the two
\* action ordinals other than the head's predicted_action, for each of the
\* three predicted actions.
Thm_C10 ==
    /\ (ActionAreaShown /\ correctionMode) =>
          /\ OfferedCorrections = ActionOrdinals \ {samples[1].predicted_action}
          /\ Cardinality(OfferedCorrections) = 2
    /\ \A i \in 1..NumSamples :
          CorrectionOptions(Sample(i)) = ActionOrdinals \ {Sample(i).predicted_action}

\* The operator is correcting a head whose predicted action is ALLOW, after
\* two acknowledged reviews; the heads before it had the other two actions.
Wit_C10 ==
    /\ ActionAreaShown
    /\ correctionMode
    /\ samples[1].predicted_action = 0
    /\ gwReviewed = 2

\* The payload of call c: {sample, is_correct, corrected_action}.
WellFormedDecision(c) ==
    IF reviews[c].isCorrect
    THEN reviews[c].correctedAction = {}
    ELSE \E a \in ActionOrdinals :
            /\ reviews[c].correctedAction = {a}
            /\ a # reviews[c].currentSample.predicted_action

\* C11: every review payload sent to the gateway satisfies the ReviewDecision
\* invariant with respect to the sample it carries: corrected_action is
\* absent when is_correct is true; when is_correct is false it is present,
\* one of 0, 1, 2 and differs from that sample's predicted_action.
Thm_C11 == \A c \in ReviewsInFlight : WellFormedDecision(c)

\* A correction is in flight for a sample that is no longer the head of the
\* local queue.
Wit_C11 ==
    \E c \in ReviewsInFlight :
        /\ ~reviews[c].isCorrect
        /\ reviews[c].correctedAction # {}
        /\ samples = <<>> \/ samples[1] # reviews[c].currentSample

\* A run of fetchData starts in this step.
FetchStarts == \E f \in 1..MaxFetches : fetches[f].pc = "idle" /\ fetches'[f].pc = "await"

\* C12: while the controller is live the refresh interval is armed and its
\* callback runs when a full period of RefreshInterval has elapsed, each time
\* starting a run of initialize and the next period; once the controller is
\* disposed the interval is cancelled and no tick fires: the timer issues no
\* new load_samples / stats request after disposal.
Thm_C12 ==
    /\ [](live => \E t \in 0..RefreshInterval : interval = {t})
    /\ [](~live => interval = {})
    /\ [][refreshes' # refreshes =>
            /\ live
            /\ interval = {0}
            /\ interval' = {RefreshInterval}
            /\ FetchStarts]_vars
    /\ [][(live' /\ refreshes' = refreshes) =>
            \A t \in interval : \A u \in interval' : u <= t]_vars
    /\ [][~live => (refreshes' = refreshes /\ ~FetchStarts)]_vars

\* The interval has ticked while the controller was live, the controller was
\* disposed after that, and the run the tick started has ended.
Wit_C12 ==
    /\ ~live
    /\ refreshes > 0
    /\ interval = {}
    /\ \A f \in 1..MaxFetches : fetches[f].pc = "idle"

\* C14: after a load of N samples, as long as the operator only confirms,
\* every confirmation is acknowledged with success = true and no load is
\* applied in between, the i-th review request carries the i-th loaded
\* sample, every acknowledgement removes one head, and after N
\* confirmations the queue is empty with exactly N head removals.
Thm_C14 ==
    confirmRun.clean =>
        LET k == confirmRun.removals
            n == Len(lastLoad)
            sent == confirmRun.sent
        IN  /\ IsPrefix(sent, lastLoad)
            /\ samples = SubSeq(lastLoad, k + 1, n)
            /\ Len(sent) \in {k, k + 1}
            /\ (ReviewsInFlight = {}) => (Len(sent) = k)
            /\ (Len(sent) = n /\ ReviewsInFlight = {}) =>
                    (samples = <<>> /\ k = n /\ sent = lastLoad)

\* Two samples were loaded and both were confirmed in order: the queue is
\* empty after two removals and no call is left in flight.
Wit_C14 ==
    /\ confirmRun.clean
    /\ Len(lastLoad) = 2
    /\ confirmRun.removals = 2
    /\ confirmRun.sent = lastLoad
    /\ samples = <<>>
    /\ \A c \in 1..MaxReviews : reviews[c].pc = "idle"

\* C15: handleReview called on an empty queue is a silent no-op: no review
\* request is sent, the latch is not set, no notification is raised and no
\* timeout armed, and queue, stats and correction mode are unchanged.
Thm_C15 ==
    /\ [][emptyCalls' # emptyCalls =>
            /\ samples = <<>>
            /\ UNCHANGED <<samples, stats, correctionMode, processing, loading,
                           notification, timers, reviews, fetches, retrains,
                           submits, gwVars>>]_vars
    /\ [][samples = <<>> =>
            \A c \in 1..MaxReviews :
                ~(reviews[c].pc = "idle" /\ reviews'[c].pc = "review")]_vars

\* handleReview was called on the empty queue of a ready controller and
\* nothing was sent.
Wit_C15 ==
    /\ emptyCalls > 0
    /\ ~loading
    /\ samples = <<>>
    /\ submits = 0
    /\ ~processing
    /\ notification = {}

IsSuffix(p, s) == Len(p) <= Len(s) /\ SubSeq(s, Len(s) - Len(p) + 1, Len(s)) = p

\* C16: the queue is never reordered or deduplicated: in every reachable
\* state the local queue is a suffix of the sample list of the load applied
\* last, in the order the gateway gave it.
Thm_C16 == IsSuffix(samples, lastLoad)

\* A load of three samples was applied and one head was removed since: the
\* queue is the proper suffix of two samples.
Wit_C16 ==
    /\ Len(lastLoad) = 3
    /\ Len(samples) = 2
    /\ samples = Tail(lastLoad)

\* C17: the stats re-fetch that follows an acknowledged review is a single
\* stats call: issuing it and handling its response start no run of
\* initialize (no load_samples request), handling its response leaves the
\* queue unchanged, and the stats are either replaced by the snapshot of that
\* response or left as they were.
Thm_C17 ==
    [][\A c \in 1..MaxReviews :
          /\ (HandlesReviewResponse(c) /\ reviews'[c].pc = "stats") =>
                /\ ~FetchStarts
                /\ reviews'[c].res = Pending
                /\ stats' = stats
          /\ (reviews[c].pc = "stats" /\ Finishes(c)) =>
                /\ ~FetchStarts
                /\ samples' = samples
                /\ \/ stats' = stats
                   \/ /\ reviews[c].res.st = "ok"
                      /\ reviews[c].res.success
                      /\ stats' = reviews[c].res.stats]_vars

\* Two reviews were acknowledged, the stats re-fetch of the second brought
\* the snapshot that counts both, and the queue still holds a sample.
Wit_C17 ==
    /\ lastReview.outcome = "done"
    /\ \E s \in stats : s.total_reviewed = 2
    /\ samples # <<>>
    /\ \A c \in 1..MaxReviews : reviews[c].pc = "idle"

\* C18: every run of initialize ends, and ends with the controller ready
\* (loading false), whatever the outcome of its two gateway calls; once
\* ready the controller never goes back to loading, also on later
\* refreshes.
Thm_C18 ==
    /\ \A f \in 1..MaxFetches :
          (fetches[f].pc = "await") ~> (fetches[f].pc = "idle" /\ ~loading)
    /\ [][\A f \in 1..MaxFetches : FetchEnds(f) => ~loading']_vars
    /\ [][~loading => ~loading']_vars

\* The first run failed, the controller is ready all the same, and a
\* refresh has run and ended since.
Wit_C18 ==
    /\ ~loading
    /\ \E n \in notification : n.type = "error"
    /\ faults > 0
    /\ refreshes > 0
    /\ \A f \in 1..MaxFetches : fetches[f].pc = "idle"

\* Call r of triggerRetraining ends in this step.
RetrainEnds(r) == retrains[r].pc = "await" /\ retrains'[r].pc = "idle"

\* The retrain button is rendered and enabled, and the model has a call and
\* a click left.
RetrainClickable ==
    /\ live
    /\ ~loading
    /\ ~RetrainDisabled
    /\ FreeSlots(retrains) # {}
    /\ retrainClicks < MaxRetrainClicks

\* C19: when the response of triggerRetraining is handled, the notification
\* carries the message of the response with severity success whatever the
\* response says, and a run of initialize starts in the same step; when the
\* request failed in transport, the notification is the error "Failed to
\* trigger retraining" and no run of initialize starts. No latch guards the
\* trigger: it can be issued again while a request is in flight.
Thm_C19 ==
    /\ [][\A r \in 1..MaxRetrains :
            RetrainEnds(r) =>
                IF retrains[r].res.st = "ok"
                THEN /\ notification' = {[message |-> retrains[r].res.message,
                                          type |-> "success"]}
                     /\ NotificationTimeout \in timers'
                     /\ FetchStarts
                ELSE /\ notification' = {[message |-> "Failed to trigger retraining",
                                          type |-> "error"]}
                     /\ NotificationTimeout \in timers'
                     /\ ~FetchStarts]_vars
    /\ [](RetrainClickable => ENABLED triggerRetraining)

\* Two requests of triggerRetraining are in flight at the same time.
Wit_C19 ==
    \A r \in 1..MaxRetrains :
        retrains[r].pc = "await" /\ retrains[r].res.st = "pending"

\* No request is in flight and every response has been handled.
Quiescent ==
    /\ \A f \in 1..MaxFetches : fetches[f].pc = "idle"
    /\ \A c \in 1..MaxReviews : reviews[c].pc = "idle"
    /\ \A r \in 1..MaxRetrains : retrains[r].pc = "idle"

\* The gateway's pending list without the samples that arrived after the
\* load applied last was answered.
PendingOfLastLoad == SelectSeq(gwPending, LAMBDA s : Has(lastLoad, s))

\* C20: in every quiescent state the local queue equals the gateway's
\* pending list (the samples that arrived since the last load set aside),
\* whatever the order in which the responses of overlapping loads and the
\* acknowledgements were applied; a load answered before an acknowledgement
\* and applied after the dequeue does not bring the reviewed sample back.
CE_C20 == Quiescent => samples = PendingOfLastLoad

====
